---- MODULE Spec2Model ----
\* A model of the WebSocket stream transport state machine of nanomsg,
\* src/transports/ws/sws.c: one nn_sws instance, the socket it is started on,
\* and the peer at the other end of the connection.
EXTENDS Integers, Sequences, FiniteSets, TLC

\* ------------------------------------------------------------------ bounds

\* Most fragments the peer lets the instance accumulate.
MaxFrags == 2
\* Most starts of the instance.
MaxStarts == 2

\* --------------------------------------------------------- program constants

NN_SWS_STATE_IDLE == 1
NN_SWS_STATE_ACTIVE == 2
NN_SWS_STATE_SHUTTING_DOWN == 3
NN_SWS_STATE_DONE == 4

NN_SWS_INSTATE_HDR == 1
NN_SWS_INSTATE_HDR_EXT == 2
NN_SWS_INSTATE_BODY == 3
NN_SWS_INSTATE_HASMSG == 4

NN_SWS_OUTSTATE_IDLE == 1
NN_SWS_OUTSTATE_SENDING == 2

NN_SWS_SRC_USOCK == 1

NN_SWS_FIN == 128
NN_SWS_RSVS == 112
NN_SWS_OPCODE == 15
NN_SWS_OPCODE_BINARY == 2

NN_SWS_MASK == 128
NN_SWS_SIZE == 127
NN_SWS_SIZE_16 == 126
NN_SWS_SIZE_64 == 127

\* The two modes of sws.h.
NN_SWS_MODE_CLIENT == 1
NN_SWS_MODE_SERVER == 2
Modes == {NN_SWS_MODE_SERVER, NN_SWS_MODE_CLIENT}

NULL == "NULL"

\* ------------------------------------------------------------- bytes, bits

Byte == 0..255

\* a & m for a mask m of contiguous bits (m = 2^hi - 2^lo): the bits of a
\* selected by m, left in place as C's & leaves them.
BitAnd(a, m) ==
    CASE m = 128 -> (a \div 128) * 128
      [] m = 127 -> a % 128
      [] m = 112 -> ((a \div 16) % 8) * 16
      [] m = 15  -> a % 16

\* a | 0x80 on a byte.
BitOrMask(a) == IF a >= 128 THEN a ELSE a + 128

Bit(a, i) == (a \div (2 ^ i)) % 2

XorByte(a, b) ==
      ((Bit(a, 0) + Bit(b, 0)) % 2)
    + ((Bit(a, 1) + Bit(b, 1)) % 2) * 2
    + ((Bit(a, 2) + Bit(b, 2)) % 2) * 4
    + ((Bit(a, 3) + Bit(b, 3)) % 2) * 8
    + ((Bit(a, 4) + Bit(b, 4)) % 2) * 16
    + ((Bit(a, 5) + Bit(b, 5)) % 2) * 32
    + ((Bit(a, 6) + Bit(b, 6)) % 2) * 64
    + ((Bit(a, 7) + Bit(b, 7)) % 2) * 128

\* The 256 x 256 table of a ^ b, computed once.
XorTab == [a \in Byte |-> [b \in Byte |-> XorByte(a, b)]]

\* The sequence b with every entry replaced by v.
Fill(n, v) == [i \in 1..n |-> v]

RECURSIVE Concat(_)
Concat(ss) == IF ss = <<>> THEN <<>> ELSE Head(ss) \o Concat(Tail(ss))

RECURSIVE SumLen(_)
SumLen(ss) == IF ss = <<>> THEN 0 ELSE Len(Head(ss)) + SumLen(Tail(ss))

\* ------------------------------------------------- utils/wire.h, big endian

\* nn_puts (buf, val): the 2 bytes of a uint16_t, most significant first.
nn_puts(val) == << (val \div 256) % 256, val % 256 >>

\* nn_putll (buf, val): the 8 bytes of a uint64_t, most significant first.
\* Sizes in this model stay below 2^31, so the upper four bytes are 0.
nn_putll(val) ==
    [i \in 1..8 |-> IF i <= 4 THEN 0 ELSE (val \div (256 ^ (8 - i))) % 256]

\* nn_gets (buf): the uint16_t at h[at], h[at+1].
nn_gets(h, at) == h[at] * 256 + h[at + 1]

\* nn_getll (buf): the uint64_t at h[at] .. h[at+7].
nn_getll(h, at) ==
    ((((((h[at] * 256 + h[at + 1]) * 256 + h[at + 2]) * 256 + h[at + 3]) * 256
        + h[at + 4]) * 256 + h[at + 5]) * 256 + h[at + 6]) * 256 + h[at + 7]

\* ------------------------------------------------------------ the masker

\* nn_masker_init (masker, key): the 4 key bytes, rolling index 0.
nn_masker_init(key) == [key |-> key, index |-> 0]

\* A byte of storage that was allocated and never written: its value is
\* indeterminate, and stays so under XOR, with a key byte that is
\* indeterminate too.
Indet == -1

MaskByte(b, k) == IF b = Indet \/ k = Indet THEN Indet ELSE XorTab[b][k]

\* nn_masker_mask (masker, buf, len): buf XORed with the keystream from the
\* masker's index on. A masker that was never initialised gives bytes that
\* are indeterminate.
MaskedBuf(m, buf) ==
    [i \in 1..Len(buf) |->
        IF m.index = Indet THEN Indet
        ELSE MaskByte(buf[i], m.key[((m.index + i - 1) % 4) + 1])]

\* The masker after nn_masker_mask over len bytes: the index advanced, wrapping.
MaskerAfter(m, len) ==
    IF m.index = Indet THEN m ELSE [m EXCEPT !.index = (m.index + len) % 4]

\* ------------------------------------------------------------ the inputs

\* Mask keys: what nn_random_generate yields, and what the peer picks.
Keys == { <<165, 90, 60, 195>> }
PeerKeys == { <<1, 2, 4, 8>> }

EmptyMsg == [sphdr |-> <<>>, body |-> <<>>]

\* Messages handed to send: a routing-header region (sphdr) and a body.
Msgs == { EmptyMsg, [sphdr |-> <<7>>, body |-> <<97, 98>>] }

\* Payloads of the peer's frames.
PeerPayloads == { <<>>, <<97>>, <<98>> }

\* The frames a peer may send: binary frames with and without FIN, masked and
\* not; a text frame; a binary frame with a reserved bit set.
PeerFrames ==
    {[b0 |-> b, masked |-> m, payload |-> p] :
        b \in {2, 130}, m \in BOOLEAN, p \in PeerPayloads}
    \cup {[b0 |-> 129, masked |-> TRUE, payload |-> <<>>],
          [b0 |-> 194, masked |-> FALSE, payload |-> <<>>]}

\* The owner of the socket before the instance is started on it.
PriorOwner == [src |-> 11, fsm |-> "owner"]

\* ------------------------------------------------------------- the state

VARIABLES
    state,        \* sws->state
    mode,         \* sws->mode
    usock,        \* sws->usock: NULL or the socket
    usock_owner,  \* sws->usock_owner: [src, fsm]
    instate,      \* sws->instate
    outstate,     \* sws->outstate
    inhdr,        \* sws->inhdr: [0..13 -> Byte]
    inmsg,        \* sws->inmsg: the fragments, list begin first
    inmsglen,     \* sws->inmsglen
    outmsg,       \* sws->outmsg: [sphdr, body]
    masker,       \* sws->masker: [key, index]
    proc,         \* "live", "term" after nn_sws_term, or the assertion that aborted
    sockowner,    \* the socket's owner: [src, fsm]
    rd,           \* reads outstanding on the socket, oldest first
    wr,           \* writes outstanding on the socket, oldest first; the bytes of
                  \* a write start with those of sws->outhdr
    wire,         \* inbound bytes the socket has not yet handed to a read
    peer,         \* the frames those bytes came from: [fin, payload, key]
    cur,          \* payloads of the frames received since start or the last recv
    out,          \* the notifications the last step raised
    rxmsg,        \* what the last step's recv returned: <<[body, exp]>>, or <<>>
    nstart,       \* how many times the instance was started
    credit        \* sends accepted less "sent" notifications raised, since the
                  \* last start

vars == <<state, mode, usock, usock_owner, instate, outstate, inhdr, inmsg,
          inmsglen, outmsg, masker, proc, sockowner, rd, wr, wire,
          peer, cur, out, rxmsg, nstart, credit>>

\* The fields of the instance.
sws == <<state, mode, usock, usock_owner, instate, outstate, inhdr, inmsg,
         inmsglen, outmsg, masker>>

\* What nn_sws_init does not write is as the allocator left it: the mode, the
\* 14 bytes of inhdr, the masker.
UnwrittenMode == Indet
UnwrittenHdr == [i \in 0..13 |-> Indet]
UnwrittenMasker == [key |-> <<Indet, Indet, Indet, Indet>>, index |-> Indet]

\* nn_sws_init, but for the mode.
InitFields ==
    /\ state = NN_SWS_STATE_IDLE
    /\ usock = NULL
    /\ usock_owner = [src |-> -1, fsm |-> NULL]
    /\ instate = -1
    /\ outstate = -1
    /\ inhdr = UnwrittenHdr
    /\ inmsg = <<>>
    /\ inmsglen = 0
    /\ outmsg = EmptyMsg
    /\ masker = UnwrittenMasker
    /\ proc = "live"
    /\ rd = <<>>
    /\ wr = <<>>
    /\ cur = <<>>
    /\ out = <<>>
    /\ rxmsg = <<>>
    /\ nstart = 0
    /\ credit = 0

\* nn_sws_init, and a connected socket owned by whoever will start the instance.
InitSws == mode = UnwrittenMode /\ InitFields

Init ==
    /\ InitSws
    /\ sockowner = PriorOwner
    /\ wire = <<>>
    /\ peer = <<>>

\* A failed nn_assert, nn_fsm_bad_action, nn_fsm_bad_source or nn_fsm_bad_state
\* aborts the process: nothing runs after it, and the memory of the instance
\* is gone with the process. What was observed before stays observed.
Abort(what) ==
    /\ proc' = what
    /\ state' = NN_SWS_STATE_IDLE
    /\ mode' = UnwrittenMode
    /\ usock' = NULL
    /\ usock_owner' = [src |-> -1, fsm |-> NULL]
    /\ instate' = -1
    /\ outstate' = -1
    /\ inhdr' = UnwrittenHdr
    /\ inmsg' = <<>>
    /\ inmsglen' = 0
    /\ outmsg' = EmptyMsg
    /\ masker' = UnwrittenMasker
    /\ rd' = <<>>
    /\ wr' = <<>>
    /\ wire' = <<>>
    /\ peer' = <<>>
    /\ out' = <<>>
    /\ rxmsg' = <<>>
    /\ UNCHANGED <<sockowner, nstart, cur, credit>>

\* nn_usock_swap_owner (usock, owner): the socket's owner and *owner trade places.
\* <<the socket's new owner, the new *owner>>.
nn_usock_swap_owner(sock, owner) == <<owner, sock>>

\* ------------------------------------------------------- start, stop, term

\* nn_sws_start, then nn_fsm_start's NN_FSM_START in nn_sws_handler's IDLE case.
\* rc is what nn_pipebase_start returns. Neither looks at what is outstanding
\* on the socket or at what the peer has sent.
nn_sws_start(m, rc) ==
    /\ proc = "live"
    /\ nstart < MaxStarts
    /\ IF m \notin Modes
         THEN Abort("start: mode == SERVER || mode == CLIENT")
       ELSE IF ~(usock = NULL /\ usock_owner.fsm = NULL)
         THEN Abort("start: usock == NULL && usock_owner.fsm == NULL")
       ELSE IF state \in {NN_SWS_STATE_ACTIVE, NN_SWS_STATE_SHUTTING_DOWN,
                          NN_SWS_STATE_DONE}
         THEN Abort("handler: bad source")
       ELSE IF state # NN_SWS_STATE_IDLE
         THEN Abort("handler: bad state")
         ELSE LET sw == nn_usock_swap_owner(sockowner,
                            [src |-> NN_SWS_SRC_USOCK, fsm |-> "sws"])
              IN /\ mode' = m
                 /\ nstart' = nstart + 1
                 /\ sockowner' = sw[1]
                 /\ usock_owner' = sw[2]
                 /\ usock' = "usock"
                 /\ cur' = <<>>
                 /\ credit' = 0
                 /\ rxmsg' = <<>>
                 /\ IF rc < 0
                      THEN /\ state' = NN_SWS_STATE_DONE
                           /\ out' = <<"NN_SWS_ERROR">>
                           /\ UNCHANGED <<instate, outstate, rd, proc>>
                      ELSE /\ instate' = NN_SWS_INSTATE_HDR
                           /\ rd' = Append(rd, [dst |-> "inhdr", at |-> 0, len |-> 2])
                           /\ outstate' = NN_SWS_OUTSTATE_IDLE
                           /\ state' = NN_SWS_STATE_ACTIVE
                           /\ out' = <<>>
                           /\ UNCHANGED proc
                 /\ UNCHANGED <<inhdr, inmsg, inmsglen, outmsg, masker,
                                wr, wire, peer>>

\* The socket the owner hands to a start is one of a connection just opened:
\* no read or write is outstanding on it and the peer has sent nothing yet.
\* This is a condition on the owner, not one nn_sws_start checks.
FreshSocket == rd = <<>> /\ wr = <<>> /\ wire = <<>> /\ peer = <<>>

\* A stop that keeps the record of the socket's owner.
StopKeepsOwnerRecord ==
    /\ proc = "live"
    /\ state # NN_SWS_STATE_IDLE
    /\ sockowner' = usock_owner
    /\ usock' = NULL
    /\ state' = NN_SWS_STATE_IDLE
    /\ out' = <<"NN_SWS_STOPPED">>
    /\ rxmsg' = <<>>
    /\ UNCHANGED <<mode, usock_owner, instate, outstate, inhdr, inmsg, inmsglen,
                   outmsg, masker, proc, rd, wr, wire, peer, cur, nstart,
                   credit>>

\* A stop that keeps the instance's reference to the socket.
StopKeepsUsock ==
    /\ proc = "live"
    /\ state # NN_SWS_STATE_IDLE
    /\ sockowner' = usock_owner
    /\ usock_owner' = [src |-> -1, fsm |-> NULL]
    /\ state' = NN_SWS_STATE_IDLE
    /\ out' = <<"NN_SWS_STOPPED">>
    /\ rxmsg' = <<>>
    /\ UNCHANGED <<mode, usock, instate, outstate, inhdr, inmsg, inmsglen,
                   outmsg, masker, proc, rd, wr, wire, peer, cur, nstart,
                   credit>>

\* nn_sws_stop: nn_fsm_stop does nothing on a machine that is not running, and
\* otherwise runs nn_sws_shutdown with NN_FSM_STOP.
nn_sws_stop ==
    /\ proc = "live"
    /\ state # NN_SWS_STATE_IDLE
    /\ LET sw == nn_usock_swap_owner(sockowner, usock_owner)
       IN /\ sockowner' = sw[1]
          /\ usock' = NULL
          /\ usock_owner' = [src |-> -1, fsm |-> NULL]
          /\ state' = NN_SWS_STATE_IDLE
          /\ out' = <<"NN_SWS_STOPPED">>
          /\ rxmsg' = <<>>
          /\ UNCHANGED <<mode, instate, outstate, inhdr, inmsg, inmsglen,
                         outmsg, masker, proc, rd, wr, wire, peer, cur, nstart,
                         credit>>

\* The reads outstanding once every fragment of the list has been freed, by
\* nn_sws_term or by nn_sws_recv: a body read among them has lost the memory
\* it is to write to (frag 0).
FragsFreed(q) ==
    [i \in DOMAIN q |-> IF q[i].dst = "body" THEN [q[i] EXCEPT !.frag = 0]
                        ELSE q[i]]

\* nn_sws_term: asserts IDLE, frees every fragment left in the list, also the
\* one a read still outstanding at the socket is to write to, and terminates
\* the members of the instance, which is used no more. The scalar fields are
\* not written.
nn_sws_term ==
    /\ proc = "live"
    /\ IF state # NN_SWS_STATE_IDLE
         THEN Abort("term: state == IDLE")
         ELSE /\ inmsg' = <<>>
              /\ rd' = FragsFreed(rd)
              /\ proc' = "term"
              /\ outmsg' = EmptyMsg
              /\ cur' = <<>>
              /\ out' = <<>>
              /\ rxmsg' = <<>>
              /\ UNCHANGED <<state, mode, usock, usock_owner, instate,
                             outstate, inhdr, inmsglen, masker, sockowner, wr,
                             wire, peer, nstart, credit>>

\* ------------------------------------------------------------------- send

\* A header that stores sizes up to 126 in the second byte.
SendHdrSizeLiteral126(sz) ==
    IF sz <= 126 THEN <<130, sz>>
    ELSE IF sz <= 65535
      THEN <<130, 126>> \o nn_puts(sz)
      ELSE <<130, 127>> \o nn_putll(sz)

\* nn_sws_send, "Serialise the message header": the first byte and the payload
\* size in its shortest form, the mask bit not yet set.
SendHdrSize(sz) ==
    IF sz <= 125 THEN <<NN_SWS_FIN + NN_SWS_OPCODE_BINARY, sz>>
    ELSE IF sz <= 65535
      THEN <<NN_SWS_FIN + NN_SWS_OPCODE_BINARY, NN_SWS_SIZE_16>> \o nn_puts(sz)
      ELSE <<NN_SWS_FIN + NN_SWS_OPCODE_BINARY, NN_SWS_SIZE_64>> \o nn_putll(sz)

\* nn_sws_send, the header as written: on the client the mask bit is set and
\* the key follows the size.
SendHdr(m, sz, key) ==
    LET h == SendHdrSize(sz)
    IN IF m = NN_SWS_MODE_CLIENT
         THEN [h EXCEPT ![2] = BitOrMask(h[2])] \o key
         ELSE h

\* A send that starts the keystream anew for the body.
SendOutmsgTwoStreams(m, msg, key) ==
    IF m = NN_SWS_MODE_CLIENT
      THEN [sphdr |-> MaskedBuf(nn_masker_init(key), msg.sphdr),
            body |-> MaskedBuf(nn_masker_init(key), msg.body)]
      ELSE msg

\* A send that masks the body and leaves the sphdr as it is.
SendOutmsgSphdrClear(m, msg, key) ==
    IF m = NN_SWS_MODE_CLIENT
      THEN [sphdr |-> msg.sphdr,
            body |-> MaskedBuf(MaskerAfter(nn_masker_init(key), Len(msg.sphdr)),
                               msg.body)]
      ELSE msg

\* nn_sws_send, sws->outmsg once the header is built: on the client the sphdr
\* and then the body went through one masker, initialised with the key.
SendOutmsg(m, msg, key) ==
    IF m = NN_SWS_MODE_CLIENT
      THEN LET m0 == nn_masker_init(key)
               m1 == MaskerAfter(m0, Len(msg.sphdr))
           IN [sphdr |-> MaskedBuf(m0, msg.sphdr), body |-> MaskedBuf(m1, msg.body)]
      ELSE msg

\* The masker nn_sws_send leaves behind.
SendMasker(m, msg, key, old) ==
    IF m = NN_SWS_MODE_CLIENT
      THEN MaskerAfter(MaskerAfter(nn_masker_init(key), Len(msg.sphdr)), Len(msg.body))
      ELSE old

\* The bytes of the three iovecs nn_sws_send hands to nn_usock_send.
SendFrame(m, msg, key) ==
    LET o == SendOutmsg(m, msg, key)
    IN SendHdr(m, Len(msg.sphdr) + Len(msg.body), key) \o o.sphdr \o o.body

\* The assertion at the head of nn_sws_send that fails, or "".
SendDefect ==
    IF state # NN_SWS_STATE_ACTIVE THEN "send: state == ACTIVE"
    ELSE IF outstate # NN_SWS_OUTSTATE_IDLE THEN "send: outstate == IDLE"
    ELSE ""

\* nn_sws_send (msg); key is what nn_random_generate yields.
nn_sws_send(msg, key) ==
    /\ proc = "live"
    /\ IF SendDefect # ""
         THEN Abort(SendDefect)
         ELSE  /\ outmsg' = SendOutmsg(mode, msg, key)
               /\ credit' = credit + 1
               /\ masker' = SendMasker(mode, msg, key, masker)
               /\ wr' = Append(wr, [bytes |-> SendFrame(mode, msg, key),
                                    msg |-> msg, key |-> key, mode |-> mode])
               /\ outstate' = NN_SWS_OUTSTATE_SENDING
               /\ out' = <<>>
               /\ rxmsg' = <<>>
               /\ UNCHANGED <<state, mode, usock, usock_owner, instate, inhdr,
                              inmsg, inmsglen, proc, sockowner, rd, wire, peer, cur,
                              nstart>>

\* ------------------------------------------------------------------- recv

\* The fragments in the order nn_sws_recv copies them: from the list's end,
\* the oldest, to its begin.
RECURSIVE Reverse(_)
Reverse(ss) == IF ss = <<>> THEN <<>> ELSE Append(Reverse(Tail(ss)), Head(ss))

\* nn_sws_recv, the body of the message handed to the user.
Reassemble(frags) == Concat(Reverse(frags))

\* A receive that checks the state only, not the inbound sub-state.
RecvDefectStateOnly ==
    IF state # NN_SWS_STATE_ACTIVE THEN "recv: state == ACTIVE"
    ELSE IF inmsg = <<>> THEN "recv: !nn_list_empty (&sws->inmsg)"
    ELSE IF SumLen(inmsg) > inmsglen THEN "recv: pos + sz <= sws->inmsglen"
    ELSE IF SumLen(inmsg) < inmsglen THEN "recv: pos == sws->inmsglen"
    ELSE ""

\* The assertion of nn_sws_recv that fails, or "".
RecvDefect ==
    IF state # NN_SWS_STATE_ACTIVE THEN "recv: state == ACTIVE"
    ELSE IF instate # NN_SWS_INSTATE_HASMSG THEN "recv: instate == HASMSG"
    ELSE IF inmsg = <<>> THEN "recv: !nn_list_empty (&sws->inmsg)"
    ELSE IF SumLen(inmsg) > inmsglen THEN "recv: pos + sz <= sws->inmsglen"
    ELSE IF SumLen(inmsg) < inmsglen THEN "recv: pos == sws->inmsglen"
    ELSE ""

\* nn_sws_recv (msg).
nn_sws_recv ==
    /\ proc = "live"
    /\ IF RecvDefect # ""
         THEN Abort(RecvDefect)
       ELSE /\ rxmsg' = <<[body |-> Reassemble(inmsg), exp |-> Concat(cur)]>>
            /\ inmsg' = <<>>
            /\ inmsglen' = 0
            /\ instate' = NN_SWS_INSTATE_HDR
            /\ rd' = Append(FragsFreed(rd), [dst |-> "inhdr", at |-> 0, len |-> 2])
            /\ cur' = <<>>
            /\ out' = <<>>
            /\ UNCHANGED <<state, mode, usock, usock_owner, outstate, inhdr,
                           outmsg, masker, proc, sockowner, wr, wire, peer, nstart,
                           credit>>

\* ---------------------------------------------------------------- handler

\* What every branch of the handler's NN_USOCK_RECEIVED case leaves alone.
RecvKeeps == UNCHANGED <<state, mode, usock, usock_owner, outstate,
                         outmsg, sockowner, wr, nstart, credit>>

\* A completion that announces a message after every frame.
FragmentAlwaysLast(h, frags, q) ==
    /\ inmsg' = frags
    /\ peer' = IF peer = <<>> THEN peer ELSE Tail(peer)
    /\ cur' = IF peer = <<>> THEN cur ELSE Append(cur, Head(peer).payload)
    /\ instate' = NN_SWS_INSTATE_HASMSG
    /\ rd' = q
    /\ out' = <<"received">>

\* nn_sws_handler, label fragment_received: a frame is complete. Without FIN the
\* next header is read; with FIN the message is announced.
fragment_received(h, frags, q) ==
    /\ inmsg' = frags
    /\ peer' = IF peer = <<>> THEN peer ELSE Tail(peer)
    /\ cur' = IF peer = <<>> THEN cur ELSE Append(cur, Head(peer).payload)
    /\ IF BitAnd(h[0], NN_SWS_FIN) = 0
         THEN /\ instate' = NN_SWS_INSTATE_HDR
              /\ rd' = Append(q, [dst |-> "inhdr", at |-> 0, len |-> 2])
              /\ out' = <<>>
         ELSE /\ instate' = NN_SWS_INSTATE_HASMSG
              /\ rd' = q
              /\ out' = <<"received">>

\* A body that is left as it came.
InstateBodyAsRead(h, frags, q) ==
    /\ fragment_received(h, frags, q)
    /\ UNCHANGED <<masker, inmsglen>>

\* nn_sws_handler, ACTIVE, NN_USOCK_RECEIVED, case NN_SWS_INSTATE_BODY: the
\* fragment at the list's begin is unmasked if the frame was masked.
InstateBody(h, frags, q) ==
    IF BitAnd(h[1], NN_SWS_MASK) # 0
      THEN /\ masker' = MaskerAfter(masker, Len(Head(frags)))
           /\ fragment_received(h, <<MaskedBuf(masker, Head(frags))>> \o Tail(frags), q)
           /\ UNCHANGED inmsglen
      ELSE /\ fragment_received(h, frags, q)
           /\ UNCHANGED <<masker, inmsglen>>

\* The payload size the header declares, and where its mask key starts.
HdrSize(h) ==
    IF BitAnd(h[1], NN_SWS_SIZE) = NN_SWS_SIZE_16 THEN nn_gets(h, 2)
    ELSE IF BitAnd(h[1], NN_SWS_SIZE) = NN_SWS_SIZE_64 THEN nn_getll(h, 2)
    ELSE BitAnd(h[1], NN_SWS_SIZE)

HdrKeyAt(h) ==
    IF BitAnd(h[1], NN_SWS_SIZE) = NN_SWS_SIZE_16 THEN 4
    ELSE IF BitAnd(h[1], NN_SWS_SIZE) = NN_SWS_SIZE_64 THEN 10
    ELSE 2

\* The masker after the header is decoded.
HdrMasker(h, old) ==
    IF BitAnd(h[1], NN_SWS_MASK) # 0
      THEN nn_masker_init(<<h[HdrKeyAt(h)], h[HdrKeyAt(h) + 1],
                            h[HdrKeyAt(h) + 2], h[HdrKeyAt(h) + 3]>>)
      ELSE old

\* A header decoded with the counter set to the size of the frame, not raised
\* by it.
InstateHdrExtLastOnly(h, frags, q) ==
    LET size == HdrSize(h)
        fragment == Fill(size, Indet)
    IN /\ inmsglen' = size
       /\ masker' = HdrMasker(h, masker)
       /\ IF size = 0
            THEN fragment_received(h, <<fragment>> \o frags, q)
            ELSE /\ inmsg' = <<fragment>> \o frags
                 /\ instate' = NN_SWS_INSTATE_BODY
                 /\ rd' = Append(q, [dst |-> "body", at |-> 0, len |-> size,
                                      frag |-> Len(frags) + 1])
                 /\ out' = <<>>
                 /\ UNCHANGED <<peer, cur>>

\* nn_sws_handler, case NN_SWS_INSTATE_HDR_EXT: the header is complete. A
\* fragment of the declared size is put at the list's begin; its body is read
\* unless the size is 0.
InstateHdrExt(h, frags, q) ==
    LET size == HdrSize(h)
        fragment == Fill(size, Indet)
    IN /\ inmsglen' = inmsglen + size
       /\ IF size = 0
            THEN /\ masker' = HdrMasker(h, masker)
                 /\ fragment_received(h, <<fragment>> \o frags, q)
            ELSE /\ masker' = HdrMasker(h, masker)
                 /\ inmsg' = <<fragment>> \o frags
                 /\ instate' = NN_SWS_INSTATE_BODY
                 /\ rd' = Append(q, [dst |-> "body", at |-> 0, len |-> size,
                                      frag |-> Len(frags) + 1])
                 /\ out' = <<>>
                 /\ UNCHANGED <<peer, cur>>

\* The count with the key's bytes left out when the size is extended.
HdrExtLenElseIf(h) ==
    IF BitAnd(h[1], NN_SWS_SIZE) = NN_SWS_SIZE_16 THEN 2
    ELSE IF BitAnd(h[1], NN_SWS_SIZE) = NN_SWS_SIZE_64 THEN 8
    ELSE IF BitAnd(h[1], NN_SWS_MASK) # 0 THEN 4 ELSE 0

\* How many bytes of header follow the first two.
HdrExtLen(h) ==
    (IF BitAnd(h[1], NN_SWS_MASK) # 0 THEN 4 ELSE 0)
    + (IF BitAnd(h[1], NN_SWS_SIZE) = NN_SWS_SIZE_16 THEN 2
       ELSE IF BitAnd(h[1], NN_SWS_SIZE) = NN_SWS_SIZE_64 THEN 8 ELSE 0)

\* A check of the mask bit on the first frame of a message only.
HdrDefectFirstFrame(m, h) ==
    IF BitAnd(h[0], NN_SWS_RSVS) # 0 THEN "handler: (inhdr [0] & RSVS) == 0"
    ELSE IF BitAnd(h[0], NN_SWS_OPCODE) # NN_SWS_OPCODE_BINARY
      THEN "handler: (inhdr [0] & OPCODE) == BINARY"
    ELSE IF inmsg # <<>> THEN ""
    ELSE IF m = NN_SWS_MODE_SERVER /\ BitAnd(h[1], NN_SWS_MASK) = 0
      THEN "handler: server: (inhdr [1] & MASK) != 0"
    ELSE IF m # NN_SWS_MODE_SERVER /\ BitAnd(h[1], NN_SWS_MASK) # 0
      THEN "handler: client: (inhdr [1] & MASK) == 0"
    ELSE ""

\* The assertion of case NN_SWS_INSTATE_HDR that the first two bytes fail, or "".
HdrDefect(m, h) ==
    IF BitAnd(h[0], NN_SWS_RSVS) # 0 THEN "handler: (inhdr [0] & RSVS) == 0"
    ELSE IF BitAnd(h[0], NN_SWS_OPCODE) # NN_SWS_OPCODE_BINARY
      THEN "handler: (inhdr [0] & OPCODE) == BINARY"
    ELSE IF m = NN_SWS_MODE_SERVER /\ BitAnd(h[1], NN_SWS_MASK) = 0
      THEN "handler: server: (inhdr [1] & MASK) != 0"
    ELSE IF m # NN_SWS_MODE_SERVER /\ BitAnd(h[1], NN_SWS_MASK) # 0
      THEN "handler: client: (inhdr [1] & MASK) == 0"
    ELSE ""

\* nn_sws_handler, case NN_SWS_INSTATE_HDR: the first two bytes are checked,
\* the rest of the header is read, or, when there is none, decoded at once.
InstateHdr(h, frags, q) ==
    IF HdrExtLen(h) > 0
      THEN /\ instate' = NN_SWS_INSTATE_HDR_EXT
           /\ rd' = Append(q, [dst |-> "inhdr", at |-> 2, len |-> HdrExtLen(h)])
           /\ inmsg' = frags
           /\ out' = <<>>
           /\ UNCHANGED <<inmsglen, masker, peer, cur>>
      ELSE InstateHdrExt(h, frags, q)

\* What the 14 bytes of inhdr may hold where no read has written them: what
\* the allocator left there, any bytes at all.
UnwrittenFills == [0..13 -> Byte]

\* The header as case NN_SWS_INSTATE_HDR_EXT reads it, the size and the key
\* from inhdr [2] on, when the memory under the bytes never written holds mem.
HdrAsRead(h, mem) ==
    [i \in 0..13 |-> IF h[i] = Indet /\ i >= 2 /\ i <= 1 + HdrExtLen(h)
                       THEN mem[i] ELSE h[i]]

\* Whether a fragment of the declared size can be allocated: a 64-bit size of
\* 2^40 or more is out of the allocator's reach, and nn_chunkref_init's
\* alloc_assert fails.
HdrSizeFits(h) ==
    \/ BitAnd(h[1], NN_SWS_SIZE) # NN_SWS_SIZE_64
    \/ (h[2] = 0 /\ h[3] = 0 /\ h[4] = 0)

\* The bound on the sizes of frames: a frame is followed when its declared
\* size is below 2^MaxSizeBits, and is not received otherwise.
MaxSizeBits == 31

RECURSIVE Pow2(_)
Pow2(n) == IF n = 0 THEN 1 ELSE 2 * Pow2(n - 1)

\* Whether the declared size is within the bound: of the 8 bytes of a 64-bit
\* size, most significant first, the bits from MaxSizeBits up are 0.
HdrSizeInRange(h) ==
    \/ BitAnd(h[1], NN_SWS_SIZE) # NN_SWS_SIZE_64
    \/ \A j \in 0..7 :
          LET k == MaxSizeBits - 8 * (7 - j)
          IN IF k >= 8 THEN TRUE
             ELSE IF k <= 0 THEN h[2 + j] = 0
             ELSE h[2 + j] < Pow2(k)

\* nn_sws_handler, ACTIVE, NN_SWS_SRC_USOCK, NN_USOCK_RECEIVED. h and frags are
\* the header buffer and the fragments with the bytes just read in place, q the
\* reads still outstanding, w the bytes left on the wire, mem what the memory
\* of inhdr held before any read.
HandleReceived(h, frags, q, w, mem) ==
    IF state # NN_SWS_STATE_ACTIVE
      THEN Abort(IF state = NN_SWS_STATE_SHUTTING_DOWN
                   THEN "handler: bad action" ELSE "handler: bad source")
    ELSE IF instate = NN_SWS_INSTATE_HDR /\ HdrDefect(mode, h) # ""
      THEN Abort(HdrDefect(mode, h))
    ELSE IF instate \notin {NN_SWS_INSTATE_HDR, NN_SWS_INSTATE_HDR_EXT,
                            NN_SWS_INSTATE_BODY}
      THEN Abort("handler: Unexpected socket instate")
    ELSE IF instate = NN_SWS_INSTATE_HDR_EXT /\ ~HdrSizeFits(HdrAsRead(h, mem))
      THEN Abort("handler: alloc_assert (nn_chunkref_init)")
    ELSE /\ instate = NN_SWS_INSTATE_HDR_EXT => HdrSizeInRange(HdrAsRead(h, mem))
         /\ inhdr' = IF instate = NN_SWS_INSTATE_HDR_EXT
                        THEN HdrAsRead(h, mem) ELSE h
         /\ RecvKeeps
         /\ UNCHANGED proc
         /\ wire' = w
         /\ rxmsg' = <<>>
         /\ IF instate = NN_SWS_INSTATE_HDR
              THEN InstateHdr(h, frags, q)
              ELSE IF instate = NN_SWS_INSTATE_HDR_EXT
                THEN InstateHdrExt(HdrAsRead(h, mem), frags, q)
                ELSE InstateBody(h, frags, q)

\* A handler whose DONE state takes an error of the socket as SHUTTING_DOWN
\* does.
OtherOutcomeDoneError(type) ==
    CASE state = NN_SWS_STATE_ACTIVE /\ type = "NN_USOCK_SENT" ->
           IF outstate # NN_SWS_OUTSTATE_SENDING
             THEN "handler: outstate == SENDING" ELSE "sent"
      [] state = NN_SWS_STATE_ACTIVE /\ type = "NN_USOCK_SHUTDOWN" -> "shutdown"
      [] state = NN_SWS_STATE_ACTIVE /\ type = "NN_USOCK_ERROR" -> "error"
      [] state \in {NN_SWS_STATE_SHUTTING_DOWN, NN_SWS_STATE_DONE}
           /\ type = "NN_USOCK_ERROR" -> "error"
      [] state = NN_SWS_STATE_SHUTTING_DOWN /\ type # "NN_USOCK_ERROR" ->
           "handler: bad action"
      [] OTHER -> "handler: bad source"

\* A handler whose DONE state takes the completion of a write as ACTIVE does.
OtherOutcomeDoneSent(type) ==
    CASE state \in {NN_SWS_STATE_ACTIVE, NN_SWS_STATE_DONE}
           /\ type = "NN_USOCK_SENT" ->
           IF outstate # NN_SWS_OUTSTATE_SENDING
             THEN "handler: outstate == SENDING" ELSE "sent"
      [] state = NN_SWS_STATE_ACTIVE /\ type = "NN_USOCK_SHUTDOWN" -> "shutdown"
      [] state = NN_SWS_STATE_ACTIVE /\ type = "NN_USOCK_ERROR" -> "error"
      [] state = NN_SWS_STATE_SHUTTING_DOWN /\ type = "NN_USOCK_ERROR" -> "error"
      [] state = NN_SWS_STATE_SHUTTING_DOWN /\ type # "NN_USOCK_ERROR" ->
           "handler: bad action"
      [] OTHER -> "handler: bad source"

\* What the handler does with an event of the socket that is not
\* NN_USOCK_RECEIVED: "sent", "shutdown", "error", or the defect it runs into.
OtherOutcome(type) ==
    CASE state = NN_SWS_STATE_ACTIVE /\ type = "NN_USOCK_SENT" ->
           IF outstate # NN_SWS_OUTSTATE_SENDING
             THEN "handler: outstate == SENDING" ELSE "sent"
      [] state = NN_SWS_STATE_ACTIVE /\ type = "NN_USOCK_SHUTDOWN" -> "shutdown"
      [] state = NN_SWS_STATE_ACTIVE /\ type = "NN_USOCK_ERROR" -> "error"
      [] state = NN_SWS_STATE_SHUTTING_DOWN /\ type = "NN_USOCK_ERROR" -> "error"
      [] state = NN_SWS_STATE_SHUTTING_DOWN /\ type # "NN_USOCK_ERROR" ->
           "handler: bad action"
      [] OTHER -> "handler: bad source"

\* A completion that holds on to the message.
HandleSentKeepsMsg ==
    /\ outstate' = NN_SWS_OUTSTATE_IDLE
    /\ outmsg' = outmsg
    /\ out' = <<"sent">>
    /\ credit' = credit - 1
    /\ UNCHANGED state

\* nn_sws_handler, ACTIVE, NN_USOCK_SENT: the message is fully sent.
HandleSent ==
    /\ outstate' = NN_SWS_OUTSTATE_IDLE
    /\ outmsg' = EmptyMsg
    /\ out' = <<"sent">>
    /\ credit' = credit - 1
    /\ UNCHANGED state

\* nn_sws_handler for an event of the socket that is not NN_USOCK_RECEIVED.
\* q and w are the reads and writes still outstanding.
HandleOther(type, q, w) ==
    LET o == OtherOutcome(type)
    IN IF o \notin {"sent", "shutdown", "error"}
         THEN Abort(o)
         ELSE /\ rd' = q
              /\ wr' = w
              /\ rxmsg' = <<>>
              /\ UNCHANGED <<mode, usock, usock_owner, instate, inhdr, inmsg,
                             inmsglen, masker, proc, sockowner, wire,
                             peer, cur, nstart>>
              /\ CASE o = "sent" -> HandleSent
                   [] o = "shutdown" ->
                        /\ state' = NN_SWS_STATE_SHUTTING_DOWN
                        /\ out' = <<>>
                        /\ UNCHANGED <<outstate, outmsg, credit>>
                   [] o = "error" ->
                        /\ state' = NN_SWS_STATE_DONE
                        /\ out' = <<"NN_SWS_ERROR">>
                        /\ UNCHANGED <<outstate, outmsg, credit>>

\* ------------------------------------------------- the socket and the peer

\* The bytes of a read stored where the read was told to put them: in the
\* header buffer from index at on, or in the fragment at the list's begin, the
\* one allocated when the read was issued.
ReadIntoHdr(req, data) ==
    IF req.dst = "inhdr"
      THEN [i \in 0..13 |-> IF i >= req.at /\ i < req.at + req.len
                              THEN data[i - req.at + 1] ELSE inhdr[i]]
      ELSE inhdr

\* frag tells the fragment of a body read: its place in the list counted from
\* the end, where it stays while newer fragments are put at the begin.
ReadIntoFrags(req, data) ==
    IF req.dst = "body" /\ req.frag >= 1 /\ req.frag <= Len(inmsg)
      THEN [inmsg EXCEPT ![Len(inmsg) - req.frag + 1] = data]
      ELSE inmsg

\* The contents of memory that matter to the handler's reading of header h:
\* every one of UnwrittenFills when case NN_SWS_INSTATE_HDR_EXT reads a byte
\* that no read wrote, and none otherwise.
FillsRead(h) ==
    IF instate = NN_SWS_INSTATE_HDR_EXT
       /\ \E i \in 2..(1 + HdrExtLen(h)) : h[i] = Indet
      THEN UnwrittenFills ELSE {UnwrittenHdr}

\* A read completes: its bytes are in place and the socket raises
\* NN_USOCK_RECEIVED.
usock_received ==
    /\ proc = "live"
    /\ usock # NULL
    /\ rd # <<>>
    /\ Len(wire) >= Head(rd).len
    /\ LET req == Head(rd)
           data == SubSeq(wire, 1, req.len)
       IN \/ \E mem \in FillsRead(ReadIntoHdr(req, data)) :
                HandleReceived(ReadIntoHdr(req, data), ReadIntoFrags(req, data),
                               Tail(rd), SubSeq(wire, req.len + 1, Len(wire)),
                               mem)
          \/ /\ req.dst = "body"
             /\ req.frag = 0
             /\ Abort("usock: write to a freed fragment")

\* A write completes: the socket raises NN_USOCK_SENT.
usock_sent ==
    /\ proc = "live"
    /\ usock # NULL
    /\ wr # <<>>
    /\ HandleOther("NN_USOCK_SENT", rd, Tail(wr))

\* A read (op = "rd") or a write (op = "wr") resolves to shutdown instead.
usock_shutdown(op) ==
    /\ proc = "live"
    /\ usock # NULL
    /\ IF op = "rd" THEN rd # <<>> ELSE wr # <<>>
    /\ HandleOther("NN_USOCK_SHUTDOWN",
                   IF op = "rd" THEN Tail(rd) ELSE rd,
                   IF op = "wr" THEN Tail(wr) ELSE wr)

\* A read or a write resolves to an error instead.
usock_error(op) ==
    /\ proc = "live"
    /\ usock # NULL
    /\ IF op = "rd" THEN rd # <<>> ELSE wr # <<>>
    /\ HandleOther("NN_USOCK_ERROR",
                   IF op = "rd" THEN Tail(rd) ELSE rd,
                   IF op = "wr" THEN Tail(wr) ELSE wr)

\* The payload of a peer frame as it travels: XORed with the key, byte i with
\* key byte i mod 4, when the frame is masked.
PeerPayload(masked, key, payload) ==
    IF masked
      THEN [i \in 1..Len(payload) |-> XorTab[payload[i]][key[((i - 1) % 4) + 1]]]
      ELSE payload

\* A frame of the wire format: first byte b0, the length in its shortest
\* form, the key if masked, the payload.
PeerFrame(b0, masked, key, payload) ==
    LET n == Len(payload)
        m == IF masked THEN 128 ELSE 0
    IN (IF n <= 125 THEN <<b0, m + n>>
        ELSE IF n <= 65535 THEN <<b0, m + 126, (n \div 256) % 256, n % 256>>
        ELSE <<b0, m + 127, 0, 0, 0, 0, (n \div 16777216) % 256,
               (n \div 65536) % 256, (n \div 256) % 256, n % 256>>)
       \o (IF masked THEN key ELSE <<>>)
       \o PeerPayload(masked, key, payload)

\* The peer sends a frame, once the instance has taken in the frame before it:
\* a read completes when its bytes are there, whatever follows them on the wire.
peer_send(f, key) ==
    /\ proc = "live"
    /\ state = NN_SWS_STATE_ACTIVE
    /\ peer = <<>>
    /\ Len(inmsg) < MaxFrags
    /\ wire' = wire \o PeerFrame(f.b0, f.masked, key, f.payload)
    /\ peer' = Append(peer, [fin |-> f.b0 >= 128, payload |-> f.payload,
                             key |-> key])
    /\ out' = <<>>
    /\ rxmsg' = <<>>
    /\ UNCHANGED <<sws, proc, sockowner, rd, wr, cur, nstart, credit>>

\* The owner, holding the socket again after a stop, closes the connection and
\* opens a new one: what was in flight on the old one is gone.
owner_reset ==
    /\ proc = "live"
    /\ usock = NULL
    /\ rd # <<>> \/ wr # <<>> \/ wire # <<>> \/ peer # <<>>
    /\ rd' = <<>>
    /\ wr' = <<>>
    /\ wire' = <<>>
    /\ peer' = <<>>
    /\ out' = <<>>
    /\ rxmsg' = <<>>
    /\ UNCHANGED <<sws, proc, sockowner, cur, nstart, credit>>

\* ------------------------------------------------------ the specification

\* The modes a start is called with: the two of sws.h and one that is neither.
StartModes == Modes \cup {3}

Next ==
    \/ \E m \in StartModes, rc \in {0, -1} : FreshSocket /\ nn_sws_start(m, rc)
    \/ nn_sws_stop
    \/ nn_sws_term
    \/ \E msg \in Msgs, key \in Keys : nn_sws_send(msg, key)
    \/ nn_sws_recv
    \/ usock_received
    \/ usock_sent
    \/ \E op \in {"rd", "wr"} : usock_shutdown(op)
    \/ \E op \in {"rd", "wr"} : usock_error(op)
    \/ \E f \in PeerFrames, key \in PeerKeys : peer_send(f, key)
    \/ owner_reset

Spec == Init /\ [][Next]_vars

\* The same, with starts on any socket: also the one of the stop before, not
\* closed since, with the read or the write of that session still outstanding
\* and what the peer sent in between.
NextSame ==
    \/ Next
    \/ \E m \in Modes, rc \in {0, -1} : nn_sws_start(m, rc)

SpecSame == Init /\ [][NextSame]_vars

\* ------------------------------------------- two instances back to back

Other(m) == IF m = NN_SWS_MODE_SERVER THEN NN_SWS_MODE_CLIENT
            ELSE NN_SWS_MODE_SERVER

\* The payload sizes of the round trip: the edges of the three length forms.
RTSizes == {0, 1, 125, 126, 65535, 65536, 70000}

\* A payload of n bytes that does not repeat with the period of the key.
Pattern(n) == [i \in 1..n |-> (i * 37 + (i \div 256)) % 256]

\* The messages of the round trip: each size, with no sphdr and with one of
\* 3 bytes where the size allows.
RTMsgs ==
    UNION {{[sphdr |-> SubSeq(Pattern(n), 1, k),
              body |-> SubSeq(Pattern(n), k + 1, n)] : k \in {0, 3} \cap 0..n} :
           n \in RTSizes}

RTKeys == { <<165, 90, 60, 195>> }

\* The instance at the other end, of the other mode, runs nn_sws_send on msg,
\* and its socket carries what it wrote to this instance, which is waiting for
\* the header of a message.
remote_send(msg, key) ==
    /\ proc = "live"
    /\ state = NN_SWS_STATE_ACTIVE
    /\ instate = NN_SWS_INSTATE_HDR
    /\ inmsg = <<>> /\ wire = <<>> /\ peer = <<>>
    /\ wire' = SendFrame(Other(mode), msg, key)
    /\ peer' = <<[fin |-> TRUE, payload |-> msg.sphdr \o msg.body, key |-> key]>>
    /\ out' = <<>>
    /\ rxmsg' = <<>>
    /\ UNCHANGED <<sws, proc, sockowner, rd, wr, cur, nstart, credit>>

NextRT ==
    \/ \E m \in Modes : FreshSocket /\ nn_sws_start(m, 0)
    \/ \E msg \in RTMsgs, key \in RTKeys : remote_send(msg, key)
    \/ usock_received
    \/ nn_sws_recv

SpecRT == Init /\ [][NextRT]_vars

\* ------------------------------------------------- the header, size by size

\* Payload sizes at and around the edges of the three length forms.
HdrSizes == {0, 1, 125, 126, 127, 255, 256, 65535, 65536, 70000}

HdrKeys == { <<165, 90, 60, 195>>, <<0, 255, 1, 128>> }

\* The messages whose headers are followed: one of each size, no sphdr.
HdrMsgs == {[sphdr |-> <<>>, body |-> Pattern(n)] : n \in HdrSizes}

\* An instance of either mode, and at the other end one of the other mode that
\* sends the messages: nn_sws_send's header there, the handler's two header
\* reads and the body read here.
NextHdr ==
    \/ \E m \in Modes : FreshSocket /\ nn_sws_start(m, 0)
    \/ \E msg \in HdrMsgs, key \in HdrKeys : remote_send(msg, key)
    \/ usock_received

SpecHdr == Init /\ [][NextHdr]_vars

\* ------------------------------------------------ the masker, length by length

\* The longest sphdr and the longest body masked.
MaskLens == 0..5

\* The messages masked: every pair of lengths, bytes that differ along it.
MaskMsgs ==
    {[sphdr |-> [i \in 1..a |-> 16 + i], body |-> [i \in 1..b |-> 200 - 3 * i]] :
        a \in MaskLens, b \in MaskLens}

\* A server, and at the other end a client that sends the messages: the
\* frames go through nn_sws_send's masking there and the handler's unmasking
\* here.
NextMask ==
    \/ FreshSocket /\ nn_sws_start(NN_SWS_MODE_SERVER, 0)
    \/ \E msg \in MaskMsgs, key \in HdrKeys : remote_send(msg, key)
    \/ usock_received
    \/ nn_sws_recv

SpecMask == Init /\ [][NextMask]_vars

\* ------------------------------------------------------------ properties

\* The notification n is among those in o.
Raised(o, n) == \E i \in DOMAIN o : o[i] = n

\* C1: at most one outbound message is in flight: a send is accepted only when
\* the instance is ACTIVE and the outbound sub-state is IDLE, an accepted send
\* issues one write and moves the sub-state to SENDING, and a send at any
\* other time fails an assertion and writes nothing.
C1_OneSendInFlight ==
    /\ [](/\ Len(wr) <= 1
          /\ (proc = "live" /\ state = NN_SWS_STATE_ACTIVE)
                => (outstate = NN_SWS_OUTSTATE_SENDING <=> wr # <<>>))
    /\ [][ (\E msg \in Msgs, key \in Keys : nn_sws_send(msg, key)) =>
             IF state = NN_SWS_STATE_ACTIVE /\ outstate = NN_SWS_OUTSTATE_IDLE
               THEN /\ proc' = "live"
                    /\ outstate' = NN_SWS_OUTSTATE_SENDING
                    /\ Len(wr') = Len(wr) + 1
               ELSE /\ proc' \in {"send: state == ACTIVE", "send: outstate == IDLE"}
                    /\ wr' = <<>> ]_vars
    /\ [][ Len(wr') > Len(wr) =>
             /\ state = NN_SWS_STATE_ACTIVE
             /\ outstate = NN_SWS_OUTSTATE_IDLE
             /\ wr = <<>> ]_vars

\* C2: a write completion while SENDING returns the outbound sub-state to IDLE,
\* releases the outbound message and raises exactly one "sent"; "sent" is
\* raised by nothing else, so there are never more of them than accepted sends.
C2_SentCompletion ==
    /\ [](credit >= 0)
    /\ [][ (/\ usock_sent
            /\ state = NN_SWS_STATE_ACTIVE
            /\ outstate = NN_SWS_OUTSTATE_SENDING) =>
             /\ outstate' = NN_SWS_OUTSTATE_IDLE
             /\ outmsg' = EmptyMsg
             /\ out' = <<"sent">>
             /\ credit' = credit - 1 ]_vars
    /\ [][ Raised(out', "sent") =>
             /\ usock_sent
             /\ outstate = NN_SWS_OUTSTATE_SENDING
             /\ credit > 0
             /\ out' = <<"sent">> ]_vars

\* The write of a message that is not empty has completed.
C2_Witness ==
    /\ out = <<"sent">>
    /\ outstate = NN_SWS_OUTSTATE_IDLE
    /\ credit = 0
    /\ wr = <<>>

\* C3: the message receive returns is the payloads of the frames of that
\* message, in the order they arrived, and after the receive the fragment list
\* is empty and the length counter is 0.
C3_Reassembly ==
    rxmsg # <<>> => /\ rxmsg[1].body = rxmsg[1].exp
                    /\ inmsg = <<>>
                    /\ inmsglen = 0

\* C4: an instance that is IDLE holds no fragment and its length counter is 0,
\* whatever it had received when it was stopped.
C4_StopDiscards ==
    (proc = "live" /\ state = NN_SWS_STATE_IDLE) => (inmsg = <<>> /\ inmsglen = 0)

\* A step that is a stop.
StopStep == proc' = "live" /\ state # NN_SWS_STATE_IDLE /\ state' = NN_SWS_STATE_IDLE

\* C5: a stop is possible in every started state; it leaves the instance IDLE,
\* the socket with the owner it was taken from, the instance without a socket,
\* and raises "stopped" once; nothing else raises it; an IDLE instance can be
\* terminated.
C5_StopAlways ==
    /\ []((proc = "live" /\ state # NN_SWS_STATE_IDLE) => ENABLED nn_sws_stop)
    /\ []((proc = "live" /\ state = NN_SWS_STATE_IDLE)
            => ENABLED (nn_sws_term /\ proc' = "term"))
    /\ [][ (nn_sws_stop \/ StopStep) =>
             /\ StopStep
             /\ usock' = NULL
             /\ sockowner' = usock_owner
             /\ sockowner' = PriorOwner
             /\ usock_owner' = [src |-> -1, fsm |-> NULL]
             /\ out' = <<"NN_SWS_STOPPED">> ]_vars
    /\ [][ Raised(out', "NN_SWS_STOPPED") => StopStep ]_vars

\* The instance was stopped with a read and a write outstanding.
C5_Witness ==
    /\ out = <<"NN_SWS_STOPPED">>
    /\ state = NN_SWS_STATE_IDLE
    /\ rd # <<>>
    /\ wr # <<>>

\* C6: the socket is owned by the instance exactly while the instance is
\* started, and by the owner it was taken from at all other times; a start on
\* an instance that holds a socket fails; a stop restores the owner recorded
\* by the start.
C6_OneOwner ==
    /\ [](proc = "live" =>
            /\ usock # NULL <=> state # NN_SWS_STATE_IDLE
            /\ usock # NULL <=> sockowner = [src |-> NN_SWS_SRC_USOCK, fsm |-> "sws"]
            /\ usock # NULL => usock_owner = PriorOwner
            /\ usock = NULL => /\ sockowner = PriorOwner
                               /\ usock_owner = [src |-> -1, fsm |-> NULL])
    /\ [][ ((\E m \in Modes, rc \in {0, -1} : nn_sws_start(m, rc)) /\ usock # NULL) =>
             /\ proc' = "start: usock == NULL && usock_owner.fsm == NULL"
             /\ sockowner' = sockowner ]_vars
    /\ [][ nstart' # nstart =>
             /\ usock = NULL
             /\ usock' # NULL
             /\ usock_owner' = sockowner ]_vars
    /\ [][ (usock # NULL /\ usock' = NULL /\ proc' = "live") =>
             sockowner' = usock_owner ]_vars

\* The socket is back with its owner after the second start and stop.
C6_Witness ==
    /\ proc = "live"
    /\ nstart = 2
    /\ usock = NULL
    /\ sockowner = PriorOwner
    /\ out = <<"NN_SWS_STOPPED">>

\* The mask bit of the frame whose header is next on the wire is not the one
\* the role of the instance asks for.
MaskBitWrong ==
    \/ mode = NN_SWS_MODE_SERVER /\ wire[2] < 128
    \/ mode = NN_SWS_MODE_CLIENT /\ wire[2] >= 128

FrameHdrLen(n) == IF n <= 125 THEN 2 ELSE IF n <= 65535 THEN 4 ELSE 10

\* The bytes of the write e are a frame as the role of its writer makes it.
WrittenAsRole(e) ==
    LET pay == e.msg.sphdr \o e.msg.body
        n == Len(pay)
        hl == FrameHdrLen(n)
        b == e.bytes
    IN IF e.mode = NN_SWS_MODE_CLIENT
         THEN /\ b[2] >= 128
              /\ Len(b) = hl + 4 + n
              /\ \A j \in 1..4 : b[hl + j] = e.key[j]
              /\ \A i \in 1..n :
                   b[hl + 4 + i] = XorByte(pay[i], e.key[((i - 1) % 4) + 1])
         ELSE /\ b[2] < 128
              /\ Len(b) = hl + n
              /\ \A i \in 1..n : b[hl + i] = pay[i]

\* C8: a frame written by a client has the mask bit set, the key after the
\* length, and sphdr and body XORed with the key as one keystream; a frame
\* written by a server has the mask bit clear, no key, and the payload as is.
C8_MaskedByRole == \A i \in DOMAIN wr : WrittenAsRole(wr[i])

\* A client wrote a message with one byte of sphdr and a body.
C8_Witness ==
    \E i \in DOMAIN wr :
        /\ wr[i].mode = NN_SWS_MODE_CLIENT
        /\ Len(wr[i].msg.sphdr) = 1
        /\ wr[i].msg.body # <<>>

\* What may stop an instance that is only ever fed whole frames of the other
\* role: a start on a started instance, a receive with no message to receive.
RTDefects ==
    {"live", "start: usock == NULL && usock_owner.fsm == NULL",
     "recv: state == ACTIVE", "recv: instate == HASMSG"}

\* C9: what one instance writes for a send, read by an instance of the other
\* role, makes that instance announce one message, and receive returns the
\* payload that was sent, for every size class and in both directions.
C9_RoundTrip ==
    /\ proc \in RTDefects
    /\ rxmsg # <<>> => rxmsg[1].body = rxmsg[1].exp
    /\ (proc = "live" /\ state = NN_SWS_STATE_ACTIVE
          /\ instate = NN_SWS_INSTATE_HASMSG) =>
            /\ wire = <<>>
            /\ peer = <<>>
            /\ rd = <<>>
            /\ Len(cur) = 1
            /\ Reassemble(inmsg) = cur[1]

\* A server returned the 126 bytes a client sent as 3 of sphdr and 123 of body.
C9_Witness ==
    /\ mode = NN_SWS_MODE_SERVER
    /\ rxmsg # <<>>
    /\ Len(rxmsg[1].body) = 126
    /\ masker = [key |-> <<165, 90, 60, 195>>, index |-> 2]

\* C10: the header send builds has the shortest length form for the size
\* (literal up to 125, 126 and 16 bits up to 65535, 127 and 64 bits above, all
\* big endian), the mask bit and the key exactly when the sender is a client,
\* and the parser finds in it the same size, mask bit and place of the key.
C10_HeaderRoundTrip ==
    LET n == Len(peer[1].payload)
        key == peer[1].key
        masked == (Other(mode) = NN_SWS_MODE_CLIENT)
        hl == FrameHdrLen(n)
    IN peer # <<>> =>
       /\ instate = NN_SWS_INSTATE_HDR =>
            /\ Len(wire) = hl + (IF masked THEN 4 ELSE 0) + n
            /\ wire[1] = 130
            /\ wire[2] >= 128 <=> masked
            /\ n <= 125 => wire[2] % 128 = n
            /\ (n > 125 /\ n <= 65535) =>
                 /\ wire[2] % 128 = 126
                 /\ wire[3] = n \div 256 /\ wire[4] = n % 256
            /\ n > 65535 =>
                 /\ wire[2] % 128 = 127
                 /\ \A i \in 3..6 : wire[i] = 0
                 /\ wire[7] = n \div 16777216
                 /\ wire[8] = (n \div 65536) % 256
                 /\ wire[9] = (n \div 256) % 256
                 /\ wire[10] = n % 256
            /\ masked => \A j \in 1..4 : wire[hl + j] = key[j]
       /\ instate = NN_SWS_INSTATE_HDR_EXT =>
            /\ inhdr[1] >= 128 <=> masked
            /\ 2 + Head(rd).len = hl + (IF masked THEN 4 ELSE 0)
            /\ Len(wire) = Head(rd).len + n
       /\ instate = NN_SWS_INSTATE_BODY =>
            /\ Len(wire) = n
            /\ inmsglen = n
            /\ Head(rd).len = n
            /\ BitAnd(inhdr[1], NN_SWS_MASK) # 0 <=> masked
            /\ HdrKeyAt(inhdr) = hl
            /\ masked => masker = [key |-> key, index |-> 0]
            /\ HdrDefect(mode, inhdr) = ""

\* The header of a client's message of 70000 bytes is parsed: the 64-bit form,
\* the mask bit set.
C10_Witness ==
    /\ mode = NN_SWS_MODE_SERVER
    /\ peer # <<>>
    /\ Len(peer[1].payload) = 70000
    /\ instate = NN_SWS_INSTATE_BODY
    /\ inhdr[1] = 255
    /\ inmsglen = 70000

\* C11: a sphdr and a body masked one after the other with one masker, then
\* unmasked as one buffer by a masker started anew with the same key, are the
\* bytes that were masked, whatever the two lengths; the masked bytes are the
\* XOR with the key taken round and round over both regions.
C11_MaskInvolution ==
    /\ (peer # <<>> /\ instate = NN_SWS_INSTATE_BODY) =>
          LET pay == peer[1].payload
              key == peer[1].key
          IN /\ Len(wire) = Len(pay)
             /\ \A i \in 1..Len(pay) :
                  wire[i] = XorByte(pay[i], key[((i - 1) % 4) + 1])
             /\ masker = [key |-> key, index |-> 0]
    /\ instate = NN_SWS_INSTATE_HASMSG =>
          /\ Len(cur) = 1
          /\ inmsg = <<cur[1]>>
          /\ cur[1] # <<>> => masker.index = Len(cur[1]) % 4
    /\ rxmsg # <<>> => rxmsg[1].body = rxmsg[1].exp

\* A sphdr of 3 bytes and a body of 5 came back as they were.
C11_Witness ==
    /\ instate = NN_SWS_INSTATE_HASMSG
    /\ inmsg = <<<<17, 18, 19, 197, 194, 191, 188, 185>>>>
    /\ cur = inmsg

C13_RecvOneAtATime ==
    /\ []((/\ proc = "live"
           /\ state = NN_SWS_STATE_ACTIVE
           /\ instate = NN_SWS_INSTATE_HASMSG) => rd = <<>>)
    /\ [][ nn_sws_recv =>
             IF state = NN_SWS_STATE_ACTIVE /\ instate = NN_SWS_INSTATE_HASMSG
               THEN /\ proc' = "live"
                    /\ rxmsg' # <<>>
                    /\ instate' = NN_SWS_INSTATE_HDR
                    /\ rd' = <<[dst |-> "inhdr", at |-> 0, len |-> 2]>>
                    /\ inmsg' = <<>>
               ELSE /\ proc' \in {"recv: state == ACTIVE", "recv: instate == HASMSG"}
                    /\ rxmsg' = <<>> ]_vars
    /\ [][ rxmsg' # <<>> =>
             /\ state = NN_SWS_STATE_ACTIVE
             /\ instate = NN_SWS_INSTATE_HASMSG ]_vars

\* A message of two frames was received, and the next header is being read.
C13_Witness ==
    /\ rxmsg # <<>>
    /\ Len(rxmsg[1].body) = 2
    /\ instate = NN_SWS_INSTATE_HDR
    /\ rd = <<[dst |-> "inhdr", at |-> 0, len |-> 2]>>

\* C14: a shutdown of the socket in ACTIVE takes the instance to SHUTTING_DOWN,
\* an error of the socket in ACTIVE or SHUTTING_DOWN takes it to DONE; each of
\* the two raises the error event to the owner, and issues no read or write.
C14_ErrorNotified ==
    [][ /\ ((\E op \in {"rd", "wr"} : usock_shutdown(op))
              /\ state = NN_SWS_STATE_ACTIVE) =>
                /\ state' = NN_SWS_STATE_SHUTTING_DOWN
                /\ Raised(out', "NN_SWS_ERROR")
                /\ Len(rd') <= Len(rd) /\ Len(wr') <= Len(wr)
        /\ ((\E op \in {"rd", "wr"} : usock_error(op))
              /\ state \in {NN_SWS_STATE_ACTIVE, NN_SWS_STATE_SHUTTING_DOWN}) =>
                /\ state' = NN_SWS_STATE_DONE
                /\ Raised(out', "NN_SWS_ERROR")
                /\ Len(rd') <= Len(rd) /\ Len(wr') <= Len(wr) ]_vars

\* C15: in every state of a live instance the lengths of the fragments in the
\* list add up to the inbound length counter.
C15_LengthCounter == proc = "live" => SumLen(inmsg) = inmsglen

\* After a restart the list holds a fragment of each start, 2 bytes in all.
C15_Witness ==
    /\ proc = "live"
    /\ nstart = 2
    /\ state = NN_SWS_STATE_ACTIVE
    /\ Len(inmsg) = 2
    /\ inmsglen = 2
    /\ cur = <<<<98>>>>

\* C16 as stated: the number of header bytes read in HDR_EXT after the first
\* two is one of 0, 2, 4, 8 or 12.
C16_ExtLenAsStated ==
    instate = NN_SWS_INSTATE_HDR_EXT => Head(rd).len \in {0, 2, 4, 8, 12}

\* C16, amended: the number of header bytes read after the first two is one of
\* 0, 2, 4, 6, 8 or 12 (6 for a masked frame with a 16-bit size); a read is
\* issued for them unless there are none, and with them the whole header
\* written has been read when the body is due.
C16_ExtLen ==
    /\ instate = NN_SWS_INSTATE_HDR_EXT =>
          /\ rd = <<[dst |-> "inhdr", at |-> 2, len |-> HdrExtLen(inhdr)]>>
          /\ Head(rd).len \in {2, 4, 6, 8, 12}
          /\ Len(wire) = Head(rd).len + Len(peer[1].payload)
    /\ instate = NN_SWS_INSTATE_BODY =>
          /\ HdrExtLen(inhdr) \in {0, 2, 4, 6, 8, 12}
          /\ Len(wire) = Len(peer[1].payload)
          /\ rd = <<[dst |-> "body", at |-> 0, len |-> Len(wire), frag |-> 1]>>

\* A masked header with a 16-bit size: 6 more bytes are asked for.
C16_Witness ==
    /\ instate = NN_SWS_INSTATE_HDR_EXT
    /\ BitAnd(inhdr[1], NN_SWS_MASK) # 0
    /\ BitAnd(inhdr[1], NN_SWS_SIZE) = NN_SWS_SIZE_16
    /\ Head(rd).len = 6

\* C17: a frame of declared length 0 never causes a body read. When it is the
\* last frame of its message the instance is in HASMSG with no read
\* outstanding and holds the bytes of the message's frames so far (none if it
\* is the sole frame); otherwise an empty fragment is added and a 2-byte
\* header read is outstanding.
C17_ZeroLengthFrame ==
    [][ /\ \A i \in DOMAIN rd' : rd'[i].dst = "body" => rd'[i].len > 0
        /\ ( /\ proc' = "live"
             /\ state' = NN_SWS_STATE_ACTIVE
             /\ cur' = Append(cur, <<>>) ) =>
              /\ instate \in {NN_SWS_INSTATE_HDR, NN_SWS_INSTATE_HDR_EXT}
              /\ IF BitAnd(inhdr'[0], NN_SWS_FIN) # 0
                   THEN /\ instate' = NN_SWS_INSTATE_HASMSG
                        /\ rd' = <<>>
                        /\ Reassemble(inmsg') = Concat(cur')
                   ELSE /\ instate' = NN_SWS_INSTATE_HDR
                        /\ Head(inmsg') = <<>>
                        /\ rd' = <<[dst |-> "inhdr", at |-> 0, len |-> 2]>>
      ]_vars

\* C18: DONE is terminal until a stop. A step of a live instance that is in
\* DONE and still lives after it is the stop: it leads to IDLE, raises
\* NN_SWS_STOPPED and nothing else, and issues no read or write. No other step
\* changes the state, issues a read or a write or raises a notification.
C18_DoneTerminal ==
    [][ ( /\ proc = "live"
          /\ state = NN_SWS_STATE_DONE
          /\ proc' = "live" ) =>
            /\ state' = NN_SWS_STATE_IDLE
            /\ out' = <<"NN_SWS_STOPPED">>
            /\ usock' = NULL
            /\ rd' = rd
            /\ wr' = wr
            /\ UNCHANGED <<instate, outstate, inhdr, inmsg, inmsglen, outmsg,
                           rxmsg>> ]_vars

\* An instance whose only start failed, stopped out of DONE: it has been
\* started once and was never ACTIVE.
C18_Witness ==
    /\ proc = "live"
    /\ state = NN_SWS_STATE_IDLE
    /\ out = <<"NN_SWS_STOPPED">>
    /\ nstart = 1
    /\ instate = -1

\* C19: no completion of a read or a write reaches the instance in a state
\* whose handler treats it as a defect (nn_fsm_bad_action, nn_fsm_bad_source),
\* also when the other request in flight has resolved to shutdown or error
\* before it.
C19_CompletionsHandled ==
    [][ ( \/ usock_received
          \/ usock_sent
          \/ \E op \in {"rd", "wr"} : usock_shutdown(op) \/ usock_error(op) ) =>
            proc' \notin {"handler: bad action", "handler: bad source"} ]_vars

\* C20: NN_SWS_ERROR is raised exactly by the steps that take a live instance
\* into DONE, alone and once; the instance leaves DONE by a stop only, so the
\* event is raised at most once between a start and the stop that follows it.
C20_ErrorOnce ==
    [][ /\ Raised(out', "NN_SWS_ERROR") <=>
              (proc' = "live" /\ state # NN_SWS_STATE_DONE
                 /\ state' = NN_SWS_STATE_DONE)
        /\ Raised(out', "NN_SWS_ERROR") =>
              /\ out' = <<"NN_SWS_ERROR">>
              /\ state \in {NN_SWS_STATE_IDLE, NN_SWS_STATE_ACTIVE,
                            NN_SWS_STATE_SHUTTING_DOWN}
              /\ nstart' = IF state = NN_SWS_STATE_IDLE
                             THEN nstart + 1 ELSE nstart
        /\ (proc' = "live" /\ state = NN_SWS_STATE_DONE
              /\ state' # NN_SWS_STATE_DONE) =>
              (state' = NN_SWS_STATE_IDLE /\ ~Raised(out', "NN_SWS_ERROR"))
      ]_vars

\* The error of the second start's connection, raised out of SHUTTING_DOWN or
\* ACTIVE.
C20_Witness ==
    /\ proc = "live"
    /\ state = NN_SWS_STATE_DONE
    /\ out = <<"NN_SWS_ERROR">>
    /\ nstart = 2
    /\ instate = NN_SWS_INSTATE_HDR

\* C21: the instance never has more than one read or more than one write
\* outstanding on the socket, also after a stop with a read or a write in
\* flight and the start that follows it; a write is issued only by a send in
\* ACTIVE with the outbound sub-state IDLE, a read only when none is pending.
C21_OneReadOneWrite ==
    [][ proc' = "live" =>
          /\ Len(rd') <= 1
          /\ Len(wr') <= 1
          /\ Len(wr') > Len(wr) =>
                (state = NN_SWS_STATE_ACTIVE /\ outstate = NN_SWS_OUTSTATE_IDLE
                   /\ wr = <<>>)
          /\ Len(rd') > Len(rd) => rd = <<>> ]_vars

====
